---------------------------- MODULE Spec2Model ----------------------------
(* State-machine model of pydisco/disco/task.py: Task, Map, MapOutput,     *)
(* Reduce, ReduceOutput, ReduceReader and num_cmp.                         *)
(*                                                                         *)
(* Strings are sequences of one-character strings, ordered by the code     *)
(* points of Ord.  None is Python's None.                                  *)
EXTENDS Integers, Sequences, FiniteSets, TLC

VARIABLES
    pc,        \* position of the running task (or of the driver of a pure function)
    job,       \* the job configuration and the task's inputs, fixed at construction
    events,    \* events sent to the master, in order: Message, OutputURL, OOBData, TaskFailed
    oob,       \* the files under oob/: a function from written keys to their value
    opened,    \* handles returned by input_stream / output_stream stages, in acquisition order
    closed,    \* handles whose close() was called, in call order
    out,       \* records the writer wrote, per partition (Reduce: partition 0)
    comb,      \* per partition: the combiner's comb_buffer and the calls it received
    index,     \* the job's index manifests: a set of "<id> <URL>" lines per file
    ts,        \* state of the running track_status generator
    rd,        \* reader state: Map's record stream, ReduceReader and what it delivered
    sib,       \* sibling tasks of the job that update the shared manifest
    calls      \* number of calls the driver has made

vars == <<pc, job, events, oob, opened, closed, out, comb, index, ts, rd, sib, calls>>

None == "None"

(***************************************************************************)
(* Characters and strings                                                  *)
(***************************************************************************)
Digits == {"0", "1", "2", "3", "4", "5", "6", "7", "8", "9"}

Ord(c) ==
    CASE c = "NUL" -> 0
      [] c = " " -> 32
      [] c = "+" -> 43
      [] c = "-" -> 45
      [] c = "/" -> 47
      [] c = "0" -> 48
      [] c = "1" -> 49
      [] c = "2" -> 50
      [] c = "3" -> 51
      [] c = "4" -> 52
      [] c = "5" -> 53
      [] c = "6" -> 54
      [] c = "7" -> 55
      [] c = "8" -> 56
      [] c = "9" -> 57
      [] c = ":" -> 58
      [] c = "A" -> 65
      [] c = "_" -> 95
      [] c = "a" -> 97
      [] c = "b" -> 98
      [] c = "x" -> 120
      [] c = "y" -> 121

\* all strings over alphabet A of length at most n
StringsUpTo(A, n) == UNION {[1..k -> A] : k \in 0..n}

(***************************************************************************)
(* Task.put (lines 16, 169-179)                                            *)
(***************************************************************************)
\* the characters the negated class of oob_chars does not match
OobAllowed == Digits \cup {"a", "b", "x", "y", "A", "_", "-", ":"}

\* oob_chars.match(key): the pattern is one negated character class and
\* match() anchors at the start of the string, so it looks at key[0] alone
oob_chars_match(key) == Len(key) > 0 /\ key[1] \notin OobAllowed

OOBData(key) == [type |-> "OOB", payload |-> key]

\* put(key, value): raise DiscoError on a match, else write the file when
\* value is not None, then send OOBData
put(key, value) ==
    IF oob_chars_match(key)
    THEN /\ pc' = "raised"
         /\ UNCHANGED <<oob, events>>
    ELSE /\ oob' = IF value # None
                   THEN [k \in DOMAIN oob \cup {key} |-> IF k = key THEN value ELSE oob[k]]
                   ELSE oob
         /\ events' = Append(events, OOBData(key))
         /\ pc' = pc

\* documented maximum key length (docstring of put)
OobMaxKeyLen == 256

MaxKeyLen == 2
MaxPuts == 2

PutAlphabet == {"a", "/", "_"}
LongKey == [i \in 1..(OobMaxKeyLen + 1) |-> "a"]
PutKeys == StringsUpTo(PutAlphabet, MaxKeyLen) \cup {LongKey}
PutValues == {None, <<"x">>}

InitPut ==
    /\ pc = "running"
    /\ job = [kind |-> "put"]
    /\ events = <<>>
    /\ oob = <<>>
    /\ opened = <<>>
    /\ closed = <<>>
    /\ out = <<>>
    /\ comb = <<>>
    /\ index = {}
    /\ ts = None
    /\ rd = None
    /\ sib = <<>>
    /\ calls = 0

\* a user function calling Task.put
PutCall ==
    /\ pc = "running"
    /\ calls < MaxPuts
    /\ \E key \in PutKeys, value \in PutValues : put(key, value)
    /\ calls' = calls + 1
    /\ UNCHANGED <<job, opened, closed, out, comb, index, ts, rd, sib>>

NextPut == PutCall

SpecPut == InitPut /\ [][NextPut]_vars

\* a key the documented grammar allows
ValidOobKey(key) ==
    /\ Len(key) <= OobMaxKeyLen
    /\ \A i \in 1..Len(key) : key[i] \in OobAllowed

\* C1: put with a key holding a character outside [A-Za-z0-9_:-] at any
\* position, or longer than 256, writes no OOB file and sends no OOBData.
C1_InvalidKeyNeverStored ==
    /\ \A k \in DOMAIN oob : ValidOobKey(k)
    /\ \A i \in 1..Len(events) :
          events[i].type = "OOB" => ValidOobKey(events[i].payload)

(***************************************************************************)
(* Task.track_status (lines 192-199)                                       *)
(***************************************************************************)
Message(p) == [type |-> "MSG", payload |-> p]

\* the generator before its first next(): n = 0, nothing pulled
TrackStart(template) == [tmpl |-> template, k |-> 0, n |-> 0, done |-> FALSE]

\* line 196-197: the progress message sent before item number n is yielded
TrackProgressEveryItem(g, si, n) == <<Message(<<g.tmpl, n>>)>>
TrackProgress(g, si, n) ==
    IF si # 0 /\ n % si = 0 THEN <<Message(<<g.tmpl, n>>)>> ELSE <<>>

\* next() when enumerate(iterator) hands out an item: n takes its index
TrackYield(g) == [g EXCEPT !.n = g.k, !.k = g.k + 1]

\* line 199: the loop is over, the completion message carries n + 1
TrackDone(g) == <<Message(<<"Done", g.tmpl, g.n + 1>>)>>
TrackFinish(g) == [g EXCEPT !.done = TRUE]

MaxItems == 3
MaxInterval == 2
TrackItems == {"a", "b"}

InitTrack ==
    /\ pc = "iterating"
    /\ \E si \in 0..MaxInterval, items \in StringsUpTo(TrackItems, MaxItems) :
          job = [kind |-> "track", status_interval |-> si, items |-> items]
    /\ events = <<>>
    /\ oob = <<>>
    /\ opened = <<>>
    /\ closed = <<>>
    /\ out = <<>>
    /\ comb = <<>>
    /\ index = {}
    /\ ts = TrackStart("entries")
    /\ rd = [pulled |-> 0, asked |-> 0, yielded |-> <<>>]
    /\ sib = <<>>
    /\ calls = 0

\* the consumer asks for the next element and gets one
TrackNextItem ==
    /\ pc = "iterating"
    /\ rd.pulled < Len(job.items)
    /\ ts' = TrackYield(ts)
    /\ events' = events \o TrackProgress(ts, job.status_interval, ts.k)
    /\ rd' = [pulled |-> rd.pulled + 1, asked |-> rd.asked + 1,
               yielded |-> Append(rd.yielded, job.items[rd.pulled + 1])]
    /\ UNCHANGED <<pc, job, oob, opened, closed, out, comb, index, sib, calls>>

\* the consumer asks for the next element and the source is exhausted
TrackNextEnd ==
    /\ pc = "iterating"
    /\ rd.pulled = Len(job.items)
    /\ ts' = TrackFinish(ts)
    /\ events' = events \o TrackDone(ts)
    /\ rd' = [rd EXCEPT !.asked = rd.asked + 1]
    /\ pc' = "exhausted"
    /\ UNCHANGED <<job, oob, opened, closed, out, comb, index, sib, calls>>

NextTrack == TrackNextItem \/ TrackNextEnd

SpecTrack == InitTrack /\ [][NextTrack]_vars

IsDone(e) == e.type = "MSG" /\ e.payload[1] = "Done"
IsProgress(e) == e.type = "MSG" /\ e.payload[1] # "Done"

\* indices that get a progress message among the first y items
ProgressIndices(si, y) == IF si = 0 THEN {} ELSE {n \in 0..(y - 1) : n % si = 0}

\* C10: track_status yields the elements of the source in order, one per
\* request and never ahead of the consumer; with status_interval N > 0 it
\* sends a progress message for every N-th item and with N = 0 none; it
\* sends exactly one completion message, after the last element.
C10_TrackStatusPassThrough ==
      LET y == Len(rd.yielded)
          prog == {i \in 1..Len(events) : IsProgress(events[i])}
          fin == {i \in 1..Len(events) : IsDone(events[i])}
      IN /\ y <= Len(job.items)
         /\ rd.yielded = SubSeq(job.items, 1, y)
         /\ rd.pulled = y
         /\ rd.pulled <= rd.asked
         /\ {events[i].payload[2] : i \in prog} = ProgressIndices(job.status_interval, y)
         /\ Cardinality(prog) = Cardinality(ProgressIndices(job.status_interval, y))
         /\ IF ts.done
            THEN /\ y = Len(job.items)
                 /\ fin = {Len(events)}
            ELSE fin = {}

C10_Witness ==
    /\ job.kind = "track"
    /\ ts.done
    /\ Len(rd.yielded) = 3
    /\ job.status_interval = 2
    /\ Cardinality({i \in 1..Len(events) : IsProgress(events[i])}) = 2

(***************************************************************************)
(* Events, paths and URLs (lines 9, 118-147)                               *)
(***************************************************************************)
OutputURL(url) == [type |-> "OUT", payload |-> url]

\* TaskFailed(msg): the fatal failure report; the task ends there
TaskFailed(msg) ==
    /\ events' = Append(events, [type |-> "ERR", payload |-> msg])
    /\ pc' = "failed"

\* url(name, *args, scheme): scheme://host/disco/<home>/<templated path>;
\* host and home are those of the task, the rest is kept as a tuple
Url(scheme, name, args) == <<scheme, name, args>>
map_index_url == Url("dir", "MAP_INDEX", <<>>)
reduce_index_url == Url("dir", "REDUCE_INDEX", <<>>)
map_output_url(id, partition) == Url("disco", "MAP_OUTPUT", <<id, partition>>)
reduce_output_url(id) == Url("disco", "REDUCE_OUTPUT", <<id>>)

\* ddfs_save(blobs, jobname, master): the tag the storage collaborator returns
ddfs_save == Url("tag", "DDFS", <<>>)

\* safe_update(path, lines): merge the lines into the manifest file
safe_update(file, lines) == index' = [index EXCEPT ![file] = @ \cup lines]

(***************************************************************************)
(* ispartitioned, num_partitions (lines 161-167)                           *)
(***************************************************************************)
Max(a, b) == IF a >= b THEN a ELSE b
IsPartitionedNever == FALSE
ispartitioned == job.nr_reduces > 0
NumPartitionsUnclamped == job.nr_reduces
num_partitions == Max(1, job.nr_reduces)

(***************************************************************************)
(* connect_input, connect_output, close_output (lines 201-218)             *)
(***************************************************************************)
\* connect_input(url): every input_stream stage hands back a handle; the
\* caller gets the last one
InputHandles(url) ==
    [s \in 1..job.input_stages |-> [kind |-> "in", of |-> url, stage |-> s, close |-> TRUE]]

\* connect_output(part): fd_list holds one handle per output_stream stage,
\* in acquisition order
OutputHandles(part) ==
    [s \in 1..Len(job.output_stream) |->
        [kind |-> "out", of |-> part, stage |-> s, close |-> job.output_stream[s]]]

\* positions in opened of the fd_list of partition part
FdList(part) ==
    {i \in 1..Len(opened) : opened[i].kind = "out" /\ opened[i].of = part}

RECURSIVE ForwardClosable(_, _)
ForwardClosable(fds, hi) ==
    IF hi = 0 THEN <<>>
    ELSE ForwardClosable(fds, hi - 1)
         \o (IF hi \in fds /\ opened[hi].close THEN <<hi>> ELSE <<>>)
RECURSIVE ReversedClosable(_, _)
\* close_output(fd_list): the handles that have close, last acquired first
ReversedClosable(fds, hi) ==
    IF hi = 0 THEN <<>>
    ELSE (IF hi \in fds /\ opened[hi].close THEN <<hi>> ELSE <<>>)
         \o ReversedClosable(fds, hi - 1)
close_output(fds) == closed' = closed \o ReversedClosable(fds, Len(opened))

(***************************************************************************)
(* User functions of the job: map, partition, combiner, writer             *)
(***************************************************************************)
MapKeys == {"a", "b"}
MapKeySeq == <<"a", "b">>
MapEntries == {"e0", "e1", "e2", "bad"}

\* map(entry, params): the pairs it returns; on entry "bad" it raises
MapFn(e) ==
    CASE e = "e0" -> <<>>
      [] e = "e1" -> << <<"a", 1>> >>
      [] e = "e2" -> << <<"b", 1>>, <<"a", 1>> >>
      [] e = "bad" -> "raise"

BufGet(buf, k) == IF k \in DOMAIN buf THEN buf[k] ELSE 0
BufPut(buf, k, v) == [x \in DOMAIN buf \cup {k} |-> IF x = k THEN v ELSE buf[x]]
BufDel(buf, k) == [x \in DOMAIN buf \ {k} |-> buf[x]]
RECURSIVE BufItemsFrom(_, _)
BufItemsFrom(buf, i) ==
    IF i > Len(MapKeySeq) THEN <<>>
    ELSE (IF MapKeySeq[i] \in DOMAIN buf
          THEN << <<MapKeySeq[i], buf[MapKeySeq[i]]>> >> ELSE <<>>)
         \o BufItemsFrom(buf, i + 1)
BufItems(buf) == BufItemsFrom(buf, 1)

\* combiner(key, value, comb_buffer, done, params) -> pairs to write.
\*   "sum":   adds value to comb_buffer[key], returns the items when done
\*   "flush": the same, but hands out a key as soon as its sum reaches 2
Combiner(name, key, value, buf, done) ==
    IF done = 1
    THEN [ret |-> BufItems(buf), buf |-> buf]
    ELSE LET v == BufGet(buf, key) + value
         IN IF name = "flush" /\ v >= 2
            THEN [ret |-> << <<key, v>> >>, buf |-> BufDel(buf, key)]
            ELSE [ret |-> <<>>, buf |-> BufPut(buf, key, v)]

(***************************************************************************)
(* MapOutput (lines 305-332)                                               *)
(***************************************************************************)
\* MapOutput(task, partition): an empty comb_buffer
MapOutputNew == [buf |-> <<>>, log |-> <<>>]

CombCall(key, value, buf, done) == [key |-> key, value |-> value, buf |-> buf, done |-> done]

\* add(key, value) on partition p; st holds out and comb
MapOutputAdd(st, p, key, value) ==
    IF job.combiner # None
    THEN LET r == Combiner(job.combiner, key, value, st.comb[p].buf, 0)
         IN [out |-> [st.out EXCEPT ![p] = @ \o r.ret],
             comb |-> [st.comb EXCEPT ![p] =
                         [buf |-> r.buf,
                          log |-> Append(@.log, CombCall(key, value, @.buf, 0))]]]
    ELSE [out |-> [st.out EXCEPT ![p] = Append(@, <<key, value>>)],
          comb |-> st.comb]

\* close(), first half: the final combiner call and the writes of its pairs
MapOutputFlushSkipped(st, p) == st
MapOutputFlush(st, p) ==
    IF job.combiner # None
    THEN LET r == Combiner(job.combiner, None, None, st.comb[p].buf, 1)
         IN [out |-> [st.out EXCEPT ![p] = @ \o r.ret],
             comb |-> [st.comb EXCEPT ![p] =
                         [buf |-> r.buf,
                          log |-> Append(@.log, CombCall(None, None, @.buf, 1))]]]
    ELSE st

(***************************************************************************)
(* Map._run (lines 258-297)                                                *)
(***************************************************************************)
MaxMapRecords == 2
MaxReduces == 2
MapIntervals == {0, 2}
MapInputLists == {<<>>, <<"u1">>, <<"u1", "u2">>}

InitMap ==
    /\ pc = "start"
    /\ \E inputs \in MapInputLists, nr \in 0..MaxReduces, si \in MapIntervals,
          cb \in {None, "sum", "flush"}, sv \in BOOLEAN, red \in BOOLEAN :
       \E data \in (IF Len(inputs) = 1 THEN StringsUpTo(MapEntries, MaxMapRecords)
                    ELSE {<<>>}),
          part \in [MapKeys -> 0..(Max(1, nr) - 1)] :
          job = [kind |-> "map", id |-> 0, inputs |-> inputs, data |-> data,
                 nr_reduces |-> nr, partition |-> part, combiner |-> cb,
                 save |-> sv, reduce |-> red, status_interval |-> si,
                 input_stages |-> 1, output_stream |-> <<TRUE, TRUE>>]
    /\ events = <<>>
    /\ oob = <<>>
    /\ opened = <<>>
    /\ closed = <<>>
    /\ out = <<>>
    /\ comb = <<>>
    /\ index = [MAP_INDEX |-> {}, REDUCE_INDEX |-> {}]
    /\ ts = None
    /\ rd = [i |-> 0, pos |-> 0, flushed |-> FALSE, urls |-> {}]
    /\ sib = <<>>
    /\ calls = 0

\* line 259: the test on the number of inputs
MapInputsAcceptsTwo(inputs) == Len(inputs) = 0
MapInputsInvalid(inputs) == Len(inputs) # 1

\* lines 259-266
MapCheckInputs ==
    /\ pc = "start"
    /\ IF MapInputsInvalid(job.inputs)
       THEN TaskFailed("Map can only handle one input")
       ELSE pc' = "open" /\ UNCHANGED events
    /\ UNCHANGED <<job, oob, opened, closed, out, comb, index, ts, rd, sib, calls>>

\* line 268: MapOutput(self, i) for the next i
MapOpenOutput ==
    /\ pc = "open"
    /\ rd.i < num_partitions
    /\ opened' = opened \o OutputHandles(rd.i)
    /\ out' = [q \in 0..rd.i |-> IF q = rd.i THEN <<>> ELSE out[q]]
    /\ comb' = [q \in 0..rd.i |-> IF q = rd.i THEN MapOutputNew ELSE comb[q]]
    /\ rd' = [rd EXCEPT !.i = rd.i + 1]
    /\ UNCHANGED <<pc, job, events, oob, closed, index, ts, sib, calls>>

\* lines 269-275: connect the input, build the reader, init, start track_status
MapConnectInput ==
    /\ pc = "open"
    /\ rd.i = num_partitions
    /\ opened' = opened \o InputHandles(job.inputs[1])
    /\ ts' = TrackStart("entries mapped")
    /\ rd' = [rd EXCEPT !.i = 0, !.pos = 0]
    /\ pc' = "mapping"
    /\ UNCHANGED <<job, events, oob, closed, out, comb, index, sib, calls>>

\* line 277: the partition a key goes to
MapTargetFirst(k) == 0
MapTarget(k) == job.partition[k]

RECURSIVE MapAddAll(_, _, _)
\* lines 276-278: every pair of kvs, from position i on
MapAddAll(st, kvs, i) ==
    IF i > Len(kvs) THEN st
    ELSE MapAddAll(MapOutputAdd(st, MapTarget(kvs[i][1]), kvs[i][1], kvs[i][2]), kvs, i + 1)

\* lines 274-278, one turn of the loop: read an entry, map it, send the
\* progress message, add every pair to its partition
MapRecord ==
    /\ pc = "mapping"
    /\ rd.pos < Len(job.data)
    /\ LET kvs == MapFn(job.data[rd.pos + 1])
       IN IF kvs = "raise"
          THEN /\ pc' = "crashed"
               /\ UNCHANGED <<events, out, comb, ts>>
          ELSE LET st == MapAddAll([out |-> out, comb |-> comb], kvs, 1)
               IN /\ ts' = TrackYield(ts)
                  /\ events' = events \o TrackProgress(ts, job.status_interval, ts.k)
                  /\ out' = st.out
                  /\ comb' = st.comb
                  /\ pc' = pc
    /\ rd' = [rd EXCEPT !.pos = rd.pos + 1]
    /\ UNCHANGED <<job, oob, opened, closed, index, sib, calls>>

\* the reader is exhausted: track_status sends its last message (line 199);
\* line 280
MapEnd ==
    /\ pc = "mapping"
    /\ rd.pos = Len(job.data)
    /\ ts' = TrackFinish(ts)
    /\ events' = events \o TrackDone(ts)
    /\ pc' = "closing"
    /\ UNCHANGED <<job, oob, opened, closed, out, comb, index, rd, sib, calls>>

\* line 284, partition.close(): lines 324-331
MapFlushPartition ==
    /\ pc = "closing"
    /\ rd.i < num_partitions
    /\ ~rd.flushed
    /\ LET st == MapOutputFlush([out |-> out, comb |-> comb], rd.i)
       IN out' = st.out /\ comb' = st.comb
    /\ rd' = [rd EXCEPT !.flushed = TRUE]
    /\ UNCHANGED <<pc, job, events, oob, opened, closed, index, ts, sib, calls>>

\* line 285: the manifest line of partition i
MapUrlsLastOnly(id, urls, i) == {<<i, map_output_url(id, i)>>}
MapUrls(id, urls, i) == urls \cup {<<i, map_output_url(id, i)>>}

\* line 332, then line 285
MapClosePartition ==
    /\ pc = "closing"
    /\ rd.i < num_partitions
    /\ rd.flushed
    /\ close_output(FdList(rd.i))
    /\ rd' = [rd EXCEPT !.i = rd.i + 1, !.flushed = FALSE, !.urls = MapUrls(job.id, rd.urls, rd.i)]
    /\ UNCHANGED <<pc, job, events, oob, opened, out, comb, index, ts, sib, calls>>

\* lines 287-288
MapUpdateIndex ==
    /\ pc = "closing"
    /\ rd.i = num_partitions
    /\ safe_update("MAP_INDEX", rd.urls)
    /\ pc' = "publish"
    /\ UNCHANGED <<job, events, oob, opened, closed, out, comb, ts, rd, sib, calls>>

\* lines 290-297
MapPublish ==
    /\ pc = "publish"
    /\ IF job.save /\ ~job.reduce
       THEN IF ispartitioned
            THEN TaskFailed("Storing partitioned outputs in DDFS is not yet supported")
            ELSE /\ events' = events \o <<OutputURL(ddfs_save), Message(<<"Results pushed to DDFS">>)>>
                 /\ pc' = "done"
       ELSE /\ events' = Append(events, OutputURL(map_index_url))
            /\ pc' = "done"
    /\ UNCHANGED <<job, oob, opened, closed, out, comb, index, ts, rd, sib, calls>>

NextMap ==
    \/ MapCheckInputs
    \/ MapOpenOutput
    \/ MapConnectInput
    \/ MapRecord
    \/ MapEnd
    \/ MapFlushPartition
    \/ MapClosePartition
    \/ MapUpdateIndex
    \/ MapPublish

SpecMap == InitMap /\ [][NextMap]_vars

(***************************************************************************)
(* Properties of Map and MapOutput                                         *)
(***************************************************************************)
Range(f) == {f[i] : i \in DOMAIN f}
Ended == pc \in {"done", "failed", "crashed"}

RECURSIVE EmittedUpTo(_)
\* the pairs the map function returned for the first n entries of the input
EmittedUpTo(n) ==
    IF n = 0 THEN <<>>
    ELSE EmittedUpTo(n - 1)
         \o (IF MapFn(job.data[n]) = "raise" THEN <<>> ELSE MapFn(job.data[n]))
Emitted == EmittedUpTo(rd.pos)

\* the emitted pairs whose computed partition is p
EmittedFor(p) == SelectSeq(Emitted, LAMBDA kv : job.partition[kv[1]] = p)

RECURSIVE SumLen(_, _)
SumLen(f, S) ==
    IF S = {} THEN 0
    ELSE LET x == CHOOSE x \in S : TRUE IN Len(f[x]) + SumLen(f, S \ {x})

\* C2: a Map task whose input list does not hold exactly one element fails
\* fatally and does nothing else: no output stream is opened, no input is
\* connected or read, no record is written, the map-index is not updated
\* and no OutputURL is sent.
C2_MapRejectsInputs ==
    Len(job.inputs) # 1 =>
      /\ pc \in {"start", "failed"}
      /\ opened = <<>>
      /\ out = <<>>
      /\ rd.pos = 0
      /\ ts = None
      /\ index.MAP_INDEX = {}
      /\ \A i \in 1..Len(events) : events[i].type = "ERR"
      /\ Len(events) <= 1

C2_Witness ==
    /\ Len(job.inputs) = 2
    /\ pc = "failed"
    /\ Len(events) = 1
    /\ events[1].type = "ERR"

\* C4: when the task has ended, on whatever path, every handle opened by
\* connect_input or connect_output that can be closed has been closed.
C4_AllHandlesReleased ==
    Ended => \A i \in 1..Len(opened) : opened[i].close => i \in Range(closed)

\* C8: with no combiner, each partition's output holds exactly the emitted
\* pairs whose computed partition is its id, each once and in order, and
\* the partitions together hold as many records as were emitted.
C8_MapPartitioning ==
    job.combiner = None =>
      /\ \A p \in DOMAIN out : out[p] = EmittedFor(p)
      /\ pc \in {"mapping", "closing", "publish", "done"} =>
            /\ DOMAIN out = 0..(num_partitions - 1)
            /\ SumLen(out, DOMAIN out) = Len(Emitted)

C8_Witness ==
    /\ job.combiner = None
    /\ pc = "done"
    /\ num_partitions = 2
    /\ Len(Emitted) = 3
    /\ Len(out[0]) > 0
    /\ Len(out[1]) > 0

\* the call the combiner got j-th on partition p, evaluated again
CombResult(p, j) ==
    LET c == comb[p].log[j]
    IN Combiner(job.combiner, c.key, c.value, c.buf, c.done)

RECURSIVE CombReturned(_, _)
\* everything the combiner returned in its first j calls on partition p
CombReturned(p, j) ==
    IF j = 0 THEN <<>> ELSE CombReturned(p, j - 1) \o CombResult(p, j).ret

RECURSIVE KeySum(_, _)
KeySum(kvs, k) ==
    IF kvs = <<>> THEN 0
    ELSE (IF kvs[1][1] = k THEN kvs[1][2] ELSE 0) + KeySum(Tail(kvs), k)

RECURSIVE FoldBuf(_, _)
\* a buffer holding, per key, the sum of all the pairs of kvs
FoldBuf(buf, kvs) ==
    IF kvs = <<>> THEN buf
    ELSE FoldBuf(BufPut(buf, kvs[1][1], BufGet(buf, kvs[1][1]) + kvs[1][2]), Tail(kvs))

CombFlushed(p) ==
    Len(comb[p].log) > 0 /\ comb[p].log[Len(comb[p].log)].done = 1

\* partition p's close() has got past its combiner call
CloseReached(p) ==
    \/ pc = "closing" /\ (p < rd.i \/ (p = rd.i /\ rd.flushed))
    \/ pc \in {"publish", "done", "failed"}

\* C9: with a combiner, every add hands the partition's own state on to
\* the combiner with done = 0; close calls it once more, last, with
\* (None, None, state, 1), before any handle of the partition is closed;
\* every pair the combiner returns is written.  So after close nothing
\* buffered is lost, and for the buffering "sum" combiner the output is
\* what one terminal flush over all the added pairs gives.
C9_CombinerFlushLaw ==
    job.combiner # None =>
      \A p \in DOMAIN comb :
        LET log == comb[p].log
            adds == IF CombFlushed(p) THEN Len(log) - 1 ELSE Len(log)
        IN /\ \A j \in 1..Len(log) :
                /\ log[j].buf = IF j = 1 THEN <<>> ELSE CombResult(p, j - 1).buf
                /\ log[j].done = 1 => j = Len(log) /\ log[j].key = None /\ log[j].value = None
           /\ [j \in 1..adds |-> <<log[j].key, log[j].value>>] = EmittedFor(p)
           /\ CombFlushed(p) <=> CloseReached(p)
           /\ (\E i \in FdList(p) : i \in Range(closed)) => CombFlushed(p)
           /\ out[p] = CombReturned(p, Len(log))
           /\ CombFlushed(p) =>
                /\ \A k \in MapKeys : KeySum(out[p], k) = KeySum(EmittedFor(p), k)
                /\ job.combiner = "sum" => out[p] = BufItems(FoldBuf(<<>>, EmittedFor(p)))

C9_Witness ==
    /\ job.combiner = "sum"
    /\ pc = "done"
    /\ \E p \in DOMAIN comb :
          /\ Len(comb[p].log) = 4
          /\ Len(out[p]) = 2
          /\ \E i \in 1..Len(out[p]) : out[p][i][2] = 2

(***************************************************************************)
(* Python values: int(), cmp() on ints, strings and pairs                  *)
(***************************************************************************)
PyIntVal(n) == [t |-> "int", v |-> n]
PyStrVal(str) == [t |-> "str", v |-> str]
ValueError == [t |-> "ValueError"]

RECURSIVE LStrip(_)
LStrip(str) == IF str # <<>> /\ str[1] = " " THEN LStrip(Tail(str)) ELSE str
RECURSIVE RStrip(_)
RStrip(str) ==
    IF str # <<>> /\ str[Len(str)] = " " THEN RStrip(SubSeq(str, 1, Len(str) - 1)) ELSE str

RECURSIVE DigitsValue(_, _)
\* the number written by the digits of str, after the value acc of those before
DigitsValue(str, acc) ==
    IF str = <<>> THEN acc
    ELSE DigitsValue(Tail(str), 10 * acc + (Ord(str[1]) - Ord("0")))

\* int(str): surrounding blanks dropped, an optional sign, then digits
\* only; the result is a PyIntVal, or ValueError
PyInt(str) ==
    LET t == RStrip(LStrip(str))
        signed == t # <<>> /\ t[1] \in {"+", "-"}
        body == IF signed THEN Tail(t) ELSE t
    IN IF body = <<>> \/ \E i \in 1..Len(body) : body[i] \notin Digits
       THEN ValueError
       ELSE PyIntVal(IF signed /\ t[1] = "-" THEN 0 - DigitsValue(body, 0)
                     ELSE DigitsValue(body, 0))

IntCmp(a, b) == IF a < b THEN -1 ELSE IF a > b THEN 1 ELSE 0

RECURSIVE StrCmp(_, _)
\* cmp of two strings: by the first differing character, a prefix first
StrCmp(a, b) ==
    IF a = <<>> THEN (IF b = <<>> THEN 0 ELSE -1)
    ELSE IF b = <<>> THEN 1
    ELSE IF a[1] # b[1] THEN IntCmp(Ord(a[1]), Ord(b[1]))
    ELSE StrCmp(Tail(a), Tail(b))

\* cmp of two values: numbers order before strings
PyCmp(a, b) ==
    IF a.t = "int" /\ b.t = "int" THEN IntCmp(a.v, b.v)
    ELSE IF a.t = "str" /\ b.t = "str" THEN StrCmp(a.v, b.v)
    ELSE IF a.t = "int" THEN -1 ELSE 1

\* cmp of two pairs: by the first elements, then by the second
PairCmp(x, y) == IF PyCmp(x[1], y[1]) # 0 THEN PyCmp(x[1], y[1]) ELSE PyCmp(x[2], y[2])

(***************************************************************************)
(* num_cmp (lines 334-340)                                                 *)
(***************************************************************************)
\* x and y are (key, value) pairs of strings.  x is rebound before int(y[0])
\* is tried, so a ValueError on y's key leaves x converted and y not.
num_cmp(x, y) ==
    LET xs == <<PyStrVal(x[1]), PyStrVal(x[2])>>
        ys == <<PyStrVal(y[1]), PyStrVal(y[2])>>
        x1 == IF PyInt(x[1]) # ValueError THEN <<PyInt(x[1]), PyStrVal(x[2])>> ELSE xs
        y1 == IF PyInt(x[1]) # ValueError /\ PyInt(y[1]) # ValueError
              THEN <<PyInt(y[1]), PyStrVal(y[2])>> ELSE ys
    IN PairCmp(x1, y1)

(***************************************************************************)
(* sorted(m, cmp=num_cmp) (line 446): the list sort of CPython 2 on a list *)
(* of fewer than 64 elements: the leading run is found (count_run), turned *)
(* round when it descends, and the rest is put in by binary insertion      *)
(* (binarysort).  x < y is decided as num_cmp(x, y) < 0.                   *)
(***************************************************************************)
IsLt(x, y) == num_cmp(x, y) < 0

RECURSIVE RunEnd(_, _, _)
\* the last index of the run of a that starts at 1 and has reached i - 1
RunEnd(a, i, descending) ==
    IF i > Len(a) THEN Len(a)
    ELSE IF IsLt(a[i], a[i - 1]) = descending THEN RunEnd(a, i + 1, descending)
    ELSE i - 1

Reverse(a) == [i \in 1..Len(a) |-> a[Len(a) + 1 - i]]

RECURSIVE BinarySearch(_, _, _, _)
\* where pivot goes among a[l+1 .. r] (l, r count from 0 as in binarysort)
BinarySearch(a, pivot, l, r) ==
    IF l >= r THEN l
    ELSE LET p == l + ((r - l) \div 2)
         IN IF IsLt(pivot, a[p + 1]) THEN BinarySearch(a, pivot, l, p)
            ELSE BinarySearch(a, pivot, p + 1, r)

RECURSIVE BinarySort(_, _)
\* a[1 .. start-1] is sorted; insert a[start], a[start+1], ...
BinarySort(a, start) ==
    IF start > Len(a) THEN a
    ELSE LET l == BinarySearch(a, a[start], 0, start - 1)
             b == SubSeq(a, 1, l) \o <<a[start]>> \o SubSeq(a, l + 1, start - 1)
                  \o SubSeq(a, start + 1, Len(a))
         IN BinarySort(b, start + 1)

PySorted(a) ==
    IF Len(a) < 2 THEN a
    ELSE LET descending == IsLt(a[2], a[1])
             n == RunEnd(a, 3, descending)
             b == IF descending THEN Reverse(SubSeq(a, 1, n)) \o SubSeq(a, n + 1, Len(a))
                  ELSE a
         IN BinarySort(b, n + 1)

(***************************************************************************)
(* num_cmp and sorted(m, cmp=num_cmp) on two pairs                         *)
(***************************************************************************)
MaxCmpKeyLen == 2
CmpAlphabet == {"0", "1", "a", "-"}
CmpValues == {<<"x">>, <<"y">>}
CmpPairs == StringsUpTo(CmpAlphabet, MaxCmpKeyLen) \X CmpValues

InitCmp ==
    /\ pc = "call"
    /\ \E x \in CmpPairs, y \in CmpPairs : job = [kind |-> "cmp", x |-> x, y |-> y]
    /\ events = <<>>
    /\ oob = <<>>
    /\ opened = <<>>
    /\ closed = <<>>
    /\ out = <<>>
    /\ comb = <<>>
    /\ index = {}
    /\ ts = None
    /\ rd = None
    /\ sib = <<>>
    /\ calls = 0

\* num_cmp is called on the two pairs, in either order, and the list of
\* the two is sorted (line 446), in either order
NumCmpCall ==
    /\ pc = "call"
    /\ rd' = [xy |-> num_cmp(job.x, job.y), yx |-> num_cmp(job.y, job.x),
               sxy |-> PySorted(<<job.x, job.y>>), syx |-> PySorted(<<job.y, job.x>>)]
    /\ pc' = "returned"
    /\ UNCHANGED <<job, events, oob, opened, closed, out, comb, index, ts, sib, calls>>

NextCmp == NumCmpCall

SpecCmp == InitCmp /\ [][NextCmp]_vars

\* the order the claim gives: numeric when both keys parse as integers,
\* else the natural order of the pairs as they came
SpecifiedCmp(x, y) ==
    IF PyInt(x[1]) # ValueError /\ PyInt(y[1]) # ValueError
    THEN IF PyInt(x[1]) # PyInt(y[1]) THEN IntCmp(PyInt(x[1]).v, PyInt(y[1]).v)
         ELSE StrCmp(x[2], y[2])
    ELSE IF StrCmp(x[1], y[1]) # 0 THEN StrCmp(x[1], y[1]) ELSE StrCmp(x[2], y[2])

\* C5: num_cmp orders two pairs by (integer key, value) when both keys
\* parse as integers, and by (key string, value) of the unparsed pairs when
\* either key fails to parse, whichever of the two it is.
C5_NumCmpOrder ==
    pc = "returned" => rd.xy = SpecifiedCmp(job.x, job.y)

(***************************************************************************)
(* The spill file and sort -n -k 1,1 -z -t ' ' (lines 424, 431-434)        *)
(***************************************************************************)
\* line 424: '%s %s\0' % (k, v)
SpillRecord(k, v) == k \o <<" ">> \o v \o <<"NUL">>

RECURSIVE IndexOf(_, _, _)
\* the first position from i on where str holds c, 0 when there is none
IndexOf(str, c, i) ==
    IF i > Len(str) THEN 0 ELSE IF str[i] = c THEN i ELSE IndexOf(str, c, i + 1)

RECURSIVE SplitNul(_)
\* -z: the records of a file, each ended by NUL (an unended tail is one too)
SplitNul(file) ==
    IF file = <<>> THEN <<>>
    ELSE LET z == IndexOf(file, "NUL", 1)
         IN IF z = 0 THEN <<file>>
            ELSE <<SubSeq(file, 1, z - 1)>> \o SplitNul(SubSeq(file, z + 1, Len(file)))

RECURSIVE JoinNul(_)
JoinNul(lines) ==
    IF lines = <<>> THEN <<>> ELSE lines[1] \o <<"NUL">> \o JoinNul(Tail(lines))

\* -t ' ' -k 1,1: the first field of a record
SortField(line) ==
    LET sp == IndexOf(line, " ", 1)
    IN IF sp = 0 THEN line ELSE SubSeq(line, 1, sp - 1)

RECURSIVE LeadingDigits(_)
LeadingDigits(str) ==
    IF str # <<>> /\ str[1] \in Digits THEN <<str[1]>> \o LeadingDigits(Tail(str)) ELSE <<>>

\* -n: the number a field starts with, an optional "-" and digits; 0 when
\* it starts with no number
SortNumber(field) ==
    IF field # <<>> /\ field[1] = "-"
    THEN 0 - DigitsValue(LeadingDigits(Tail(field)), 0)
    ELSE DigitsValue(LeadingDigits(field), 0)

\* the order of two records: by number, then, as the last resort, by the
\* bytes of the whole record
SortLe(a, b) ==
    LET na == SortNumber(SortField(a))
        nb == SortNumber(SortField(b))
    IN IF na # nb THEN na < nb ELSE StrCmp(a, b) <= 0

RECURSIVE SortInsert(_, _)
SortInsert(sortedLines, line) ==
    IF sortedLines = <<>> THEN <<line>>
    ELSE IF SortLe(line, sortedLines[1]) THEN <<line>> \o sortedLines
    ELSE <<sortedLines[1]>> \o SortInsert(Tail(sortedLines), line)

RECURSIVE SortLines(_)
SortLines(lines) ==
    IF lines = <<>> THEN <<>>
    ELSE SortInsert(SortLines(SubSeq(lines, 1, Len(lines) - 1)), lines[Len(lines)])

\* the file sort writes with -o
SortFile(file) == JoinNul(SortLines(SplitNul(file)))

RECURSIVE ReReader(_)
\* line 440: the records '(?s)(.*?) (.*?)\000' matches at the start of what
\* is left of the file: a key up to the first space, a value up to the
\* next NUL
ReReader(file) ==
    LET sp == IndexOf(file, " ", 1)
        z == IF sp = 0 THEN 0 ELSE IndexOf(file, "NUL", sp + 1)
    IN IF z = 0 THEN <<>>
       ELSE << <<SubSeq(file, 1, sp - 1), SubSeq(file, sp + 1, z - 1)>> >>
            \o ReReader(SubSeq(file, z + 1, Len(file)))

(***************************************************************************)
(* Reduce, ReduceOutput, ReduceReader (lines 342-456)                      *)
(***************************************************************************)
MaxReduceRecords == 2
MaxSortLimit == 2
ReduceIntervals == {0, 2}
ReduceUrls == <<"u1", "u2">>

Rec(k, v) == <<k, v>>
ReduceRecords ==
    { Rec(<<"2">>, <<"x">>), Rec(<<"2">>, <<"y">>), Rec(<<"1", "0">>, <<"x">>),
      Rec(<<"a">>, <<"x">>), Rec(<<"a", " ", "b">>, <<"x">>), Rec(<<"2">>, <<"x", "NUL">>),
      Rec(<<"a", "NUL", "y">>, <<"x">>) }

\* the records of the two inputs: a list of at most MaxReduceRecords
\* records, cut at any place
ReduceData ==
    { [u1 |-> SubSeq(l, 1, c), u2 |-> SubSeq(l, c + 1, Len(l))] :
        <<l, c>> \in { lc \in StringsUpTo(ReduceRecords, MaxReduceRecords) \X (0..MaxReduceRecords) :
                        lc[2] <= Len(lc[1]) } }

InitReduce ==
    /\ pc = "start"
    /\ \E data \in ReduceData, srt \in BOOLEAN, sv \in BOOLEAN, si \in ReduceIntervals :
       \E limit \in (IF srt THEN 0..MaxSortLimit ELSE {0}) :
          job = [kind |-> "reduce", id |-> 0, inputs |-> ReduceUrls, data |-> data,
                 sort |-> srt, mem_sort_limit |-> limit, save |-> sv,
                 status_interval |-> si, nr_reduces |-> 1,
                 input_stages |-> 1, output_stream |-> <<TRUE, TRUE>>]
    /\ events = <<>>
    /\ oob = <<>>
    /\ opened = <<>>
    /\ closed = <<>>
    /\ out = <<>>
    /\ comb = <<>>
    /\ index = [MAP_INDEX |-> {}, REDUCE_INDEX |-> {}]
    /\ ts = None
    /\ rd = [inputs |-> <<>>, mode |-> "none", total |-> 0, probed |-> <<>>,
              dl |-> <<>>, dl_closed |-> FALSE, sorted |-> <<>>, sort_runs |-> 0,
              segs |-> <<>>, u |-> 1, r |-> 0, conn |-> 0, delivered |-> <<>>]
    /\ sib = <<>>
    /\ calls = 0

\* the size connect_input reports for a URL
InputSize(url) == Len(job.data[url])

Shuffles(seq) ==
    { [i \in 1..Len(seq) |-> seq[f[i]]] :
        f \in { g \in [1..Len(seq) -> 1..Len(seq)] : \A i, j \in 1..Len(seq) : g[i] = g[j] => i = j } }

\* lines 389-393: the inputs, in the order random.shuffle leaves them
ReduceReaderInit ==
    /\ pc = "start"
    /\ \E order \in Shuffles(job.inputs) : rd' = [rd EXCEPT !.inputs = order]
    /\ pc' = "iter"
    /\ UNCHANGED <<job, events, oob, opened, closed, out, comb, index, ts, sib, calls>>

RECURSIVE ConnectAll(_, _, _)
\* the handles of connect_input on urls[a], ..., urls[b], in that order
ConnectAll(urls, a, b) ==
    IF a > b THEN <<>> ELSE InputHandles(urls[a]) \o ConnectAll(urls, a + 1, b)

RECURSIVE TotalSize(_, _)
TotalSize(urls, n) == IF n = 0 THEN 0 ELSE TotalSize(urls, n - 1) + InputSize(urls[n])

\* line 405: the test that sends the reader to the external sort
UseExternalSortAtLimit(total, limit) == total >= limit
UseExternalSort(total, limit) == total > limit

\* a segment of multi_file_iterator: a URL to connect and what its reader
\* will hand out
Segment(url, recs) == [of |-> url, recs |-> recs]

\* lines 395-408, __iter__
ReduceIter ==
    /\ pc = "iter"
    /\ IF job.sort
       THEN LET total == TotalSize(rd.inputs, Len(rd.inputs))
            IN /\ opened' = opened \o ConnectAll(rd.inputs, 1, Len(rd.inputs))
               /\ events' = Append(events, Message(<<"Reduce input is", total>>))
               /\ rd' = [rd EXCEPT !.total = total, !.probed = rd.inputs]
               /\ pc' = IF UseExternalSort(total, job.mem_sort_limit) THEN "download" ELSE "memory_sort"
               /\ ts' = ts
       ELSE /\ rd' = [rd EXCEPT !.mode = "stream",
                                 !.segs = [i \in 1..Len(rd.inputs) |->
                                             Segment(rd.inputs[i], job.data[rd.inputs[i]])]]
            /\ ts' = TrackStart("entries reduced")
            /\ pc' = "reduce_output"
            /\ UNCHANGED <<opened, events>>
    /\ UNCHANGED <<job, oob, closed, out, comb, index, sib, calls>>

\* lines 411-413: the spill file is opened for writing
DownloadOpen ==
    /\ pc = "download"
    /\ events' = Append(events, Message(<<"Reduce will be downloaded">>))
    /\ rd' = [rd EXCEPT !.dl = <<>>, !.u = 1, !.r = 0, !.conn = 0]
    /\ pc' = "spill"
    /\ UNCHANGED <<job, oob, opened, closed, out, comb, index, ts, sib, calls>>

\* line 415: the next URL is connected
DownloadConnect ==
    /\ pc = "spill"
    /\ rd.u <= Len(rd.inputs)
    /\ rd.conn < rd.u
    /\ opened' = opened \o InputHandles(rd.inputs[rd.u])
    /\ rd' = [rd EXCEPT !.conn = rd.u]
    /\ UNCHANGED <<pc, job, events, oob, closed, out, comb, index, ts, sib, calls>>

\* lines 417, 420: the tests a record must pass to be spilled
HasSpace(k) == \E i \in 1..Len(k) : k[i] = " "
HasNul(v) == \E i \in 1..Len(v) : v[i] = "NUL"
KeyRejectedNever(k) == FALSE
KeyRejected(k) == HasSpace(k)
ValueRejected(v) == HasNul(v)

\* lines 416-424: one record of the connected URL
DownloadRecord ==
    /\ pc = "spill"
    /\ rd.u <= Len(rd.inputs)
    /\ rd.conn = rd.u
    /\ rd.r < Len(job.data[rd.inputs[rd.u]])
    /\ LET kv == job.data[rd.inputs[rd.u]][rd.r + 1]
       IN IF KeyRejected(kv[1])
          THEN /\ TaskFailed("Spaces are not allowed in keys with external sort.")
               /\ rd' = rd
          ELSE IF ValueRejected(kv[2])
          THEN /\ TaskFailed("Zero bytes are not allowed in values with external sort.")
               /\ rd' = rd
          ELSE /\ rd' = [rd EXCEPT !.dl = rd.dl \o SpillRecord(kv[1], kv[2]), !.r = rd.r + 1]
               /\ UNCHANGED <<pc, events>>
    /\ UNCHANGED <<job, oob, opened, closed, out, comb, index, ts, sib, calls>>

\* the reader of the connected URL is exhausted: on to the next URL
DownloadNextUrl ==
    /\ pc = "spill"
    /\ rd.u <= Len(rd.inputs)
    /\ rd.conn = rd.u
    /\ rd.r = Len(job.data[rd.inputs[rd.u]])
    /\ rd' = [rd EXCEPT !.u = rd.u + 1, !.r = 0]
    /\ UNCHANGED <<pc, job, events, oob, opened, closed, out, comb, index, ts, sib, calls>>

\* lines 425-428: out_fd.close() puts the spill file in place
DownloadClose ==
    /\ pc = "spill"
    /\ rd.u > Len(rd.inputs)
    /\ rd' = [rd EXCEPT !.dl_closed = TRUE]
    /\ events' = events \o <<Message(<<"Reduce input downloaded ok">>),
                              Message(<<"Starting external sort">>)>>
    /\ pc' = "external_sort"
    /\ UNCHANGED <<job, oob, opened, closed, out, comb, index, ts, sib, calls>>

\* lines 429-441: the sort utility runs; a non-zero exit is fatal, else the
\* sorted file becomes the one input of multi_file_iterator
ExternalSort ==
    /\ pc = "external_sort"
    /\ \E ret \in {0, 1} :
          IF ret # 0
          THEN /\ TaskFailed("Sorting failed")
               /\ rd' = [rd EXCEPT !.sort_runs = rd.sort_runs + 1]
               /\ ts' = ts
          ELSE /\ rd' = [rd EXCEPT !.sort_runs = rd.sort_runs + 1,
                                    !.sorted = SortFile(rd.dl),
                                    !.mode = "external",
                                    !.segs = <<Segment("REDUCE_SORTED", ReReader(SortFile(rd.dl)))>>,
                                    !.u = 1, !.r = 0, !.conn = 0]
               /\ events' = Append(events, Message(<<"External sort done">>))
               /\ ts' = TrackStart("entries reduced")
               /\ pc' = "reduce_output"
    /\ UNCHANGED <<job, oob, opened, closed, out, comb, index, sib, calls>>

RECURSIVE ReadAll(_, _)
\* the records of urls[1..n], one URL after the other
ReadAll(urls, n) == IF n = 0 THEN <<>> ELSE ReadAll(urls, n - 1) \o job.data[urls[n]]

\* lines 443-446: every input is connected and read into a list, which is
\* sorted with num_cmp and wrapped in track_status
MemorySort ==
    /\ pc = "memory_sort"
    /\ events' = Append(events, Message(<<"Sorting in memory">>))
    /\ opened' = opened \o ConnectAll(rd.inputs, 1, Len(rd.inputs))
    /\ rd' = [rd EXCEPT !.mode = "memory",
                         !.segs = <<Segment(None, PySorted(ReadAll(rd.inputs, Len(rd.inputs))))>>,
                         !.u = 1, !.r = 0, !.conn = 1]
    /\ ts' = TrackStart("entries reduced")
    /\ pc' = "reduce_output"
    /\ UNCHANGED <<job, oob, closed, out, comb, index, sib, calls>>

\* lines 345-356: the ReduceOutput is built, then reduce is about to run
ReduceOutputInit ==
    /\ pc = "reduce_output"
    /\ opened' = opened \o OutputHandles(0)
    /\ out' = [q \in {0} |-> <<>>]
    /\ events' = Append(events, Message(<<"Starting reduce">>))
    /\ pc' = "reduce"
    /\ UNCHANGED <<job, oob, closed, comb, index, ts, rd, sib, calls>>

\* what is left to read in segment j when the iterator stands at (rd.u, rd.r)
SegStart(j) == IF j = rd.u THEN rd.r ELSE 0
SegsWithMore == {j \in rd.u..Len(rd.segs) : SegStart(j) < Len(rd.segs[j].recs)}
SegUrls == [i \in 1..Len(rd.segs) |-> rd.segs[i].of]

\* lines 382-383: ReduceOutput.add
ReduceOutputAdd(o, kv) == [o EXCEPT ![0] = Append(@, kv)]

\* line 357, one turn of the reduce function's loop over red_in: the
\* iterator connects the URLs it comes to (lines 450-453), track_status
\* passes the record on, reduce adds it to red_out
ReduceNext ==
    /\ pc = "reduce"
    /\ SegsWithMore # {}
    /\ LET j == CHOOSE j \in SegsWithMore : \A i \in SegsWithMore : j <= i
           kv == rd.segs[j].recs[SegStart(j) + 1]
       IN /\ opened' = opened \o ConnectAll(SegUrls, rd.conn + 1, j)
          /\ rd' = [rd EXCEPT !.u = j, !.r = SegStart(j) + 1, !.conn = Max(rd.conn, j),
                               !.delivered = Append(rd.delivered, kv)]
          /\ out' = ReduceOutputAdd(out, kv)
    /\ ts' = TrackYield(ts)
    /\ events' = events \o TrackProgress(ts, job.status_interval, ts.k)
    /\ UNCHANGED <<pc, job, oob, closed, comb, index, sib, calls>>

\* red_in is exhausted: track_status sends its last message, reduce
\* returns (line 358)
ReduceEnd ==
    /\ pc = "reduce"
    /\ SegsWithMore = {}
    /\ opened' = opened \o ConnectAll(SegUrls, rd.conn + 1, Len(rd.segs))
    /\ rd' = [rd EXCEPT !.u = Len(rd.segs) + 1, !.r = 0, !.conn = Len(rd.segs)]
    /\ ts' = TrackFinish(ts)
    /\ events' = events \o TrackDone(ts) \o <<Message(<<"Reduce done">>)>>
    /\ pc' = "close"
    /\ UNCHANGED <<job, oob, closed, out, comb, index, sib, calls>>

\* the reduce function raises: nothing catches it
ReduceRaise ==
    /\ pc = "reduce"
    /\ pc' = "crashed"
    /\ UNCHANGED <<job, events, oob, opened, closed, out, comb, index, ts, rd, sib, calls>>

\* lines 360-361, 385-386
ReduceClose ==
    /\ pc = "close"
    /\ close_output(FdList(0))
    /\ pc' = "publish"
    /\ UNCHANGED <<job, events, oob, opened, out, comb, index, ts, rd, sib, calls>>

\* line 368: the manifest line of this task
ReduceEntryNone(id) == {}
ReduceEntry(id) == {<<id, reduce_output_url(id)>>}

\* lines 363-369
ReducePublish ==
    /\ pc = "publish"
    /\ IF job.save
       THEN /\ events' = events \o <<OutputURL(ddfs_save), Message(<<"Results pushed to DDFS">>)>>
            /\ index' = index
       ELSE /\ safe_update("REDUCE_INDEX", ReduceEntry(job.id))
            /\ events' = Append(events, OutputURL(reduce_index_url))
    /\ pc' = "done"
    /\ UNCHANGED <<job, oob, opened, closed, out, comb, ts, rd, sib, calls>>

NextReduce ==
    \/ ReduceReaderInit
    \/ ReduceIter
    \/ DownloadOpen
    \/ DownloadConnect
    \/ DownloadRecord
    \/ DownloadNextUrl
    \/ DownloadClose
    \/ ExternalSort
    \/ MemorySort
    \/ ReduceOutputInit
    \/ ReduceNext
    \/ ReduceEnd
    \/ ReduceRaise
    \/ ReduceClose
    \/ ReducePublish

SpecReduce == InitReduce /\ [][NextReduce]_vars

(***************************************************************************)
(* Properties of ReduceReader                                              *)
(***************************************************************************)
\* the records of the inputs in the order the reader comes to them
ReadOrder == ReadAll(rd.inputs, Len(rd.inputs))

RECURSIVE SpillAll(_)
SpillAll(recs) ==
    IF recs = <<>> THEN <<>> ELSE SpillRecord(recs[1][1], recs[1][2]) \o SpillAll(Tail(recs))

\* a record the spill file format cannot hold
Offending(kv) ==
    (\E i \in 1..Len(kv[1]) : kv[1][i] = " ") \/ (\E i \in 1..Len(kv[2]) : kv[2][i] = "NUL")

\* the task has taken the external-sort path
OnSpillPath ==
    \/ pc \in {"download", "spill", "external_sort", "failed"}
    \/ rd.mode = "external"

\* the number of records download_and_sort has got past
Spilled ==
    IF pc = "download" THEN 0
    ELSE IF pc \in {"spill", "failed"} /\ rd.sort_runs = 0
    THEN Len(ReadAll(rd.inputs, rd.u - 1)) + rd.r
    ELSE Len(ReadOrder)

\* C6: the records the external-sort path hands to reduce are, one for
\* one, those the in-memory path (sorted with num_cmp) hands over for the
\* same input.
C6_ExternalMatchesMemory ==
    (rd.mode = "external" /\ pc \in {"close", "publish", "done"}) =>
        rd.delivered = PySorted(ReadOrder)

\* C7: in the spill, the first record with a space in its key or a NUL in
\* its value fails the task: it is not written to the spill file, the
\* file is never closed into place, sort is not run and reduce gets no
\* record.
C7_SpillRejects ==
    OnSpillPath =>
      /\ rd.dl = SpillAll(SubSeq(ReadOrder, 1, Spilled))
      /\ \A i \in 1..Spilled : ~Offending(ReadOrder[i])
      /\ (\E i \in 1..Len(ReadOrder) : Offending(ReadOrder[i])) =>
            /\ pc \in {"download", "spill", "failed"}
            /\ ~rd.dl_closed
            /\ rd.sort_runs = 0
            /\ rd.delivered = <<>>
            /\ out = <<>>
      /\ (pc = "failed" /\ rd.sort_runs = 0) =>
            /\ Spilled < Len(ReadOrder)
            /\ Offending(ReadOrder[Spilled + 1])
            /\ events[Len(events)].type = "ERR"

C7_Witness ==
    /\ pc = "failed"
    /\ rd.sort_runs = 0
    /\ Spilled = 1
    /\ Len(rd.dl) > 0
    /\ HasSpace(ReadOrder[2][1])

(***************************************************************************)
(* Sibling tasks of one job updating its manifests (lines 282-288,         *)
(* 367-369).  Each sibling is a process of its own; the scheduler may run  *)
(* a finished task once more.                                              *)
(***************************************************************************)
MaxSiblings == 3

Siblings == 1..MaxSiblings

InitIndex ==
    /\ pc = "siblings"
    /\ \E nr \in 0..MaxReduces : job = [kind |-> "index", nr_reduces |-> nr]
    /\ events = <<>>
    /\ oob = <<>>
    /\ opened = <<>>
    /\ closed = <<>>
    /\ out = <<>>
    /\ comb = <<>>
    /\ index = [MAP_INDEX |-> {}, REDUCE_INDEX |-> {}]
    /\ ts = None
    /\ rd = None
    /\ sib \in [Siblings -> {[kind |-> k, pc |-> "running", urls |-> {}, updates |-> 0,
                               rerun |-> FALSE, announced |-> None] : k \in {"map", "reduce"}}]
    /\ calls = 0

RECURSIVE MapUrlsUpTo(_, _)
\* lines 282-285: urls after the partitions 0 .. n-1 are closed
MapUrlsUpTo(id, n) == IF n = 0 THEN {} ELSE MapUrls(id, MapUrlsUpTo(id, n - 1), n - 1)

\* lines 282-285 (Map), line 368 (Reduce): the task has its lines ready
SiblingBuild(t) ==
    /\ sib[t].pc = "running"
    /\ sib' = [sib EXCEPT ![t].pc = "built",
                           ![t].urls = IF sib[t].kind = "map"
                                       THEN MapUrlsUpTo(t, num_partitions)
                                       ELSE ReduceEntry(t)]
    /\ UNCHANGED <<pc, job, events, oob, opened, closed, out, comb, index, ts, rd, calls>>

\* line 288 (Map), line 368 (Reduce): safe_update
SiblingUpdate(t) ==
    /\ sib[t].pc = "built"
    /\ safe_update(IF sib[t].kind = "map" THEN "MAP_INDEX" ELSE "REDUCE_INDEX", sib[t].urls)
    /\ sib' = [sib EXCEPT ![t].pc = "updated", ![t].updates = @ + 1]
    /\ UNCHANGED <<pc, job, events, oob, opened, closed, out, comb, ts, rd, calls>>

\* line 297 (Map), line 369 (Reduce): OutputURL(index_url)
SiblingAnnounce(t) ==
    /\ sib[t].pc = "updated"
    /\ sib' = [sib EXCEPT ![t].pc = "done",
                           ![t].announced = IF sib[t].kind = "map" THEN map_index_url
                                            ELSE reduce_index_url]
    /\ UNCHANGED <<pc, job, events, oob, opened, closed, out, comb, index, ts, rd, calls>>

\* the scheduler runs a finished task again
SiblingRerun(t) ==
    /\ sib[t].pc = "done"
    /\ ~sib[t].rerun
    /\ sib' = [sib EXCEPT ![t].pc = "running", ![t].rerun = TRUE, ![t].urls = {}]
    /\ UNCHANGED <<pc, job, events, oob, opened, closed, out, comb, index, ts, rd, calls>>

NextIndex ==
    \E t \in Siblings :
        \/ SiblingBuild(t)
        \/ SiblingUpdate(t)
        \/ SiblingAnnounce(t)
        \/ SiblingRerun(t)

SpecIndex == InitIndex /\ [][NextIndex]_vars

\* the lines task t puts in its manifest
ExpectedLines(t) ==
    IF sib[t].kind = "map"
    THEN {<<p, map_output_url(t, p)>> : p \in 0..(num_partitions - 1)}
    ELSE {<<t, reduce_output_url(t)>>}

Updated(kind) == {t \in Siblings : sib[t].kind = kind /\ sib[t].updates > 0}

\* C3: under any interleaving of the siblings' updates, each manifest
\* holds exactly the lines of the tasks that have updated it: none is
\* lost, and writing lines that are already there changes nothing.
C3_ManifestUnion ==
    /\ index.MAP_INDEX = UNION {ExpectedLines(t) : t \in Updated("map")}
    /\ index.REDUCE_INDEX = UNION {ExpectedLines(t) : t \in Updated("reduce")}

C3_Witness ==
    /\ \A t \in Siblings : sib[t].pc = "done"
    /\ \E t \in Siblings : sib[t].updates = 2
    /\ Cardinality(Updated("map")) = 2
    /\ Cardinality(Updated("reduce")) = 1
    /\ Cardinality(index.MAP_INDEX) = 4
    /\ Cardinality(index.REDUCE_INDEX) = 1

(***************************************************************************)
(* Task.__getattr__ (lines 59-65).  A field name is a sequence of words;   *)
(* the job configuration is a function from the names it holds to values.  *)
(***************************************************************************)
AttributeError == "AttributeError"

\* line 62: '%s_%s' % (self.__class__.__name__.lower(), key)
task_key(cls, key) == <<cls, "_">> \o key

\* __getattr__(key) on a task of class cls: the value, or AttributeError
getattr(cls, jobdict, key) ==
    IF key \in DOMAIN jobdict THEN jobdict[key]
    ELSE IF task_key(cls, key) \in DOMAIN jobdict THEN jobdict[task_key(cls, key)]
    ELSE AttributeError

MaxLookups == 2
AttrClasses == {"map", "reduce"}
AttrFields == {<<"k">>, <<"map", "_", "k">>, <<"reduce", "_", "k">>}
AttrValues == {"v1", "v2"}
AttrLookups == {<<"k">>, <<"j">>, <<"reduce", "_", "k">>}

InitAttr ==
    /\ pc = "running"
    /\ \E cls \in AttrClasses, held \in SUBSET AttrFields :
       \E jobdict \in [held -> AttrValues] :
          job = [kind |-> "attr", cls |-> cls, jobdict |-> jobdict]
    /\ events = <<>>
    /\ oob = <<>>
    /\ opened = <<>>
    /\ closed = <<>>
    /\ out = <<>>
    /\ comb = <<>>
    /\ index = {}
    /\ ts = None
    /\ rd = None
    /\ sib = <<>>
    /\ calls = 0

\* the task reads one of its fields
AttrLookup ==
    /\ pc = "running"
    /\ calls < MaxLookups
    /\ \E key \in AttrLookups :
          rd' = [key |-> key, result |-> getattr(job.cls, job.jobdict, key)]
    /\ calls' = calls + 1
    /\ UNCHANGED <<pc, job, events, oob, opened, closed, out, comb, index, ts, sib>>

NextAttr == AttrLookup

SpecAttr == InitAttr /\ [][NextAttr]_vars

\* C11: reading field k through the task gives the value of <tasktype>_k
\* when the configuration holds both k and <tasktype>_k, the value of the
\* one that is there when it holds only one, and fails when it holds neither.
C11_TaskOverrideLookup ==
    calls > 0 =>
      LET d == job.jobdict
          k == rd.key
          tk == task_key(job.cls, rd.key)
      IN /\ (k \in DOMAIN d /\ tk \in DOMAIN d) => rd.result = d[tk]
         /\ (k \in DOMAIN d /\ tk \notin DOMAIN d) => rd.result = d[k]
         /\ (k \notin DOMAIN d /\ tk \in DOMAIN d) => rd.result = d[tk]
         /\ (k \notin DOMAIN d /\ tk \notin DOMAIN d) => rd.result = AttributeError

(***************************************************************************)
(* connect_output and close_output on their own (lines 207-218): a caller  *)
(* opens the output chain of some partitions and closes them, as           *)
(* MapOutput and ReduceOutput do.  A stage of output_stream is TRUE when   *)
(* the handle it returns has a close attribute.                            *)
(***************************************************************************)
MaxStages == 3
MaxOutputs == 2

InitOutput ==
    /\ pc = "running"
    /\ \E stages \in StringsUpTo(BOOLEAN, MaxStages) :
          job = [kind |-> "output", output_stream |-> stages]
    /\ events = <<>>
    /\ oob = <<>>
    /\ opened = <<>>
    /\ closed = <<>>
    /\ out = <<>>
    /\ comb = <<>>
    /\ index = {}
    /\ ts = None
    /\ rd = [connected |-> 0, closed |-> {}]
    /\ sib = <<>>
    /\ calls = 0

\* lines 207-213: connect_output(part) for the next partition
OutputConnect ==
    /\ pc = "running"
    /\ rd.connected < MaxOutputs
    /\ opened' = opened \o OutputHandles(rd.connected)
    /\ rd' = [rd EXCEPT !.connected = rd.connected + 1]
    /\ UNCHANGED <<pc, job, events, oob, closed, out, comb, index, ts, sib, calls>>

\* lines 215-218: close_output(fd_list) on the fd_list of a connected partition
OutputClose ==
    /\ pc = "running"
    /\ \E part \in 0..(rd.connected - 1) :
          /\ part \notin rd.closed
          /\ close_output(FdList(part))
          /\ rd' = [rd EXCEPT !.closed = rd.closed \cup {part}]
    /\ UNCHANGED <<pc, job, events, oob, opened, out, comb, index, ts, sib, calls>>

NextOutput == OutputConnect \/ OutputClose

SpecOutput == InitOutput /\ [][NextOutput]_vars

\* the handles of partition part, in the order they were acquired
HandlesOf(part) == SelectSeq(opened, LAMBDA h : h.kind = "out" /\ h.of = part)

\* the close() calls made on handles of partition part, in call order
ClosedOf(part) == SelectSeq(closed, LAMBDA i : i \in FdList(part))

\* C12: connect_output returns one handle per output_stream stage, in
\* acquisition order; close_output closes them last acquired first, each
\* handle that has close exactly once, and passes over those that have none.
C12_CloseOutputReverseOrder ==
    job.kind = "output" =>
      \A part \in 0..(rd.connected - 1) :
        /\ Len(HandlesOf(part)) = Len(job.output_stream)
        /\ \A s \in 1..Len(job.output_stream) :
              /\ HandlesOf(part)[s].stage = s
              /\ HandlesOf(part)[s].close = job.output_stream[s]
        /\ IF part \in rd.closed
           THEN /\ \A i \in FdList(part) :
                      Cardinality({c \in 1..Len(ClosedOf(part)) : ClosedOf(part)[c] = i})
                        = IF opened[i].close THEN 1 ELSE 0
                /\ \A a, b \in 1..Len(ClosedOf(part)) :
                      a < b => opened[ClosedOf(part)[a]].stage > opened[ClosedOf(part)[b]].stage
           ELSE ClosedOf(part) = <<>>

C12_Witness ==
    /\ job.kind = "output"
    /\ job.output_stream = <<TRUE, FALSE, TRUE>>
    /\ rd.closed = {0, 1}
    /\ Len(closed) = 4

(***************************************************************************)
(* Properties of num_partitions and of the outputs a Map task opens        *)
(***************************************************************************)
\* the partitions whose output chain has been opened
OpenedPartitions == {opened[i].of : i \in {j \in 1..Len(opened) : opened[j].kind = "out"}}

\* the Map task has got past line 268
MapOutputsOpened ==
    \/ pc \in {"mapping", "closing", "publish", "done", "crashed"}
    \/ pc = "failed" /\ Len(job.inputs) = 1

\* C13: num_partitions is 1 when nr_reduces is 0 and nr_reduces when that
\* is positive, so never below 1; a Map task opens one MapOutput for each
\* partition id 0 .. num_partitions-1 and no other.
C13_NumPartitions ==
    job.kind = "map" =>
      LET n == IF job.nr_reduces = 0 THEN 1 ELSE job.nr_reduces
      IN /\ num_partitions = n
         /\ num_partitions >= 1
         /\ pc = "open" => OpenedPartitions = 0..(rd.i - 1) /\ rd.i <= n
         /\ MapOutputsOpened =>
               /\ OpenedPartitions = 0..(n - 1)
               /\ DOMAIN comb = 0..(n - 1)
               /\ \A p \in 0..(n - 1) : Cardinality(FdList(p)) = Len(job.output_stream)

C13_Witness ==
    /\ job.kind = "map"
    /\ job.nr_reduces = 0
    /\ pc = "done"
    /\ OpenedPartitions = {0}
    /\ Cardinality(FdList(0)) = 2

(***************************************************************************)
(* Properties of ReduceReader.__iter__ and of the Reduce run               *)
(***************************************************************************)
\* the sort path the reader is on or has been through
SortPath ==
    IF pc \in {"download", "spill", "external_sort", "failed"} THEN "external"
    ELSE IF pc = "memory_sort" THEN "memory"
    ELSE rd.mode

IsSizeMessage(e) == e.type = "MSG" /\ e.payload[1] = "Reduce input is"

\* C14: with sort set, __iter__ connects every input URL once for its
\* size before anything is read, sums the sizes, sends one size message
\* and takes the external sort exactly when the total is greater than
\* mem_sort_limit (equal: in memory); without sort there is no probe, no
\* size message and no sort.
C14_SortStrategy ==
    (job.kind = "reduce" /\ pc \notin {"start", "iter"}) =>
      LET n == Len(job.inputs)
          total == Len(job.data.u1) + Len(job.data.u2)
          sizes == {i \in 1..Len(events) : IsSizeMessage(events[i])}
      IN IF job.sort
         THEN /\ Len(rd.probed) = n
              /\ \A u \in Range(job.inputs) :
                    Cardinality({i \in 1..n : rd.probed[i] = u}) = 1
              /\ SubSeq(opened, 1, n) = [i \in 1..n |-> InputHandles(rd.probed[i])[1]]
              /\ rd.total = total
              /\ sizes = {1}
              /\ events[1].payload[2] = total
              /\ SortPath = IF total > job.mem_sort_limit THEN "external" ELSE "memory"
         ELSE /\ rd.probed = <<>>
              /\ sizes = {}
              /\ rd.mode = "stream"
              /\ rd.sort_runs = 0
              /\ rd.dl = <<>>
              /\ \A i \in 1..Len(events) : events[i].payload[1] # "Sorting in memory"

C14_Witness ==
    /\ job.kind = "reduce"
    /\ job.sort
    /\ job.mem_sort_limit = 2
    /\ rd.total = 2
    /\ rd.mode = "memory"
    /\ pc = "done"

\* the places in events of the messages called name
MessagesCalled(name) ==
    {i \in 1..Len(events) : events[i].type = "MSG" /\ events[i].payload[1] = name}

OutputURLs == {i \in 1..Len(events) : events[i].type = "OUT"}

\* every handle of the output chain that can be closed has been closed
OutputClosed == \A i \in FdList(0) : opened[i].close => i \in Range(closed)

MapMerged ==
    \/ pc \in {"publish", "done"}
    \/ pc = "failed" /\ Len(job.inputs) = 1

\* partition p's MapOutput is closed: combiner flushed, handles closed
MapOutputClosed(p) ==
    /\ job.combiner # None => CombFlushed(p)
    /\ \A i \in FdList(p) : opened[i].close => i \in Range(closed)

\* C16: once the last record is mapped every MapOutput is closed, its
\* combiner flushed, before the map-index is merged; the merge carries
\* one '<partition> <URL>' line for each partition 0 .. num_partitions-1,
\* also for those that got no record; then, with save and no reduce, a
\* partitioned job fails fatally and sends no OutputURL, an unpartitioned
\* one pushes to storage and sends the storage URL; every other job sends
\* the URL of the index.
C16_MapFinalization ==
    job.kind = "map" =>
      LET n == IF job.nr_reduces = 0 THEN 1 ELSE job.nr_reduces
          direct == job.save /\ ~job.reduce
      IN /\ index.MAP_INDEX # {} <=> MapMerged
         /\ MapMerged =>
               /\ rd.pos = Len(job.data)
               /\ ts.done
               /\ \A p \in 0..(n - 1) : MapOutputClosed(p)
               /\ index.MAP_INDEX = {<<p, map_output_url(job.id, p)>> : p \in 0..(n - 1)}
               /\ Cardinality(index.MAP_INDEX) = n
         /\ index.REDUCE_INDEX = {}
         /\ OutputURLs # {} => pc = "done"
         /\ (direct /\ job.nr_reduces > 0) => pc # "done"
         /\ (pc = "failed" /\ Len(job.inputs) = 1) =>
               /\ direct
               /\ job.nr_reduces > 0
               /\ events[Len(events)].type = "ERR"
         /\ pc = "done" =>
               /\ Cardinality(OutputURLs) = 1
               /\ \A i \in OutputURLs :
                     events[i].payload = IF direct THEN ddfs_save ELSE map_index_url
               /\ MessagesCalled("Results pushed to DDFS") # {} <=> direct

C16_Witness ==
    /\ job.kind = "map"
    /\ pc = "done"
    /\ job.nr_reduces = 2
    /\ Cardinality(index.MAP_INDEX) = 2
    /\ out[1] = <<>>
    /\ Len(out[0]) > 0
    /\ job.combiner = "sum"

\* C17: a Map or Reduce task that has ended in a fatal failure has put no
\* line in the job's index manifests.
C17_FailureLeavesNoEntry ==
    (job.kind \in {"map", "reduce"} /\ pc = "failed") =>
        /\ index.MAP_INDEX = {}
        /\ index.REDUCE_INDEX = {}

\* how many times x stands in seq
Count(seq, x) == Cardinality({i \in 1..Len(seq) : seq[i] = x})

\* the two sequences hold the same elements, each as many times
SameMultiset(a, b) == \A x \in Range(a) \cup Range(b) : Count(a, x) = Count(b, x)

\* reduce has been handed everything its input iterator had
ReduceFed == pc \in {"close", "publish", "done"}

\* C18: the reader's input list is a permutation of the task's URLs; in
\* each mode (unsorted, sorted in memory, sorted externally, where no key
\* has a space and no value a NUL) the pairs handed to reduce are, as a
\* multiset, the records read from the inputs; unsorted, the records of a
\* URL come together and in their order.
C18_RecordsPreserved ==
    (job.kind = "reduce" /\ pc # "start") =>
      /\ SameMultiset(rd.inputs, job.inputs)
      /\ Len(rd.inputs) = Len(job.inputs)
      /\ ReduceFed =>
            /\ rd.mode \in {"stream", "memory", "external"}
            /\ SameMultiset(rd.delivered, ReadOrder)
            /\ Len(rd.delivered) = Len(ReadOrder)
      /\ rd.mode = "stream" =>
            /\ Len(rd.delivered) <= Len(ReadOrder)
            /\ rd.delivered = SubSeq(ReadOrder, 1, Len(rd.delivered))

\* C19: num_cmp(x, y) and num_cmp(y, x) have opposite signs or are both
\* 0, also when one key only parses as an integer; so the list sorted with
\* num_cmp is the same whichever order the records were read in.
C19_NumCmpConsistent ==
    (job.kind = "cmp" /\ pc = "returned") =>
        /\ rd.xy = 0 - rd.yx
        /\ rd.sxy = rd.syx

\* C20: the count in the completion message of track_status is the number
\* of elements passed through, 0 for an empty source; a progress message
\* carries the number of elements yielded before it.
C20_CompletionCount ==
    [][\A i \in (Len(events) + 1)..Len(events') :
          /\ IsDone(events'[i]) => events'[i].payload[3] = Len(rd'.yielded)
          /\ IsProgress(events'[i]) => events'[i].payload[2] = Len(rd.yielded)]_vars

====
